---- MODULE Spec2Model ----
(***************************************************************************)
(* Model of the crypto price MCP server (src/src/index.ts).                *)
(*                                                                         *)
(* The server registers two async request handlers on one Server object:   *)
(* list-tools (no await) and call-tool (awaits fetch, then res.json()).    *)
(* A handler invocation runs from one await to the next without            *)
(* interruption.  When the Server invokes a handler is the Server's        *)
(* affair: it may hand over one request at a time, or each request as it   *)
(* arrives, also while earlier invocations are suspended.  Each invocation *)
(* has its own closure (name, rawArgs, coin, currency, url); the module    *)
(* keeps no mutable state of its own.                                      *)
(*                                                                         *)
(* JavaScript values (request arguments and the parsed response body) are  *)
(* tagged records, JavaScript strings are written code unit by code unit.  *)
(* The JavaScript runtime is whichever Node.js release the host provides.  *)
(***************************************************************************)
EXTENDS Integers, Sequences, FiniteSets, Bags, TLC

(***************************************************************************)
(* Bounds of the exploration.                                              *)
(***************************************************************************)
\* handler invocations that may be suspended at the same time
MaxInFlight == 2
\* requests received in one run
MaxRequests == 3

(***************************************************************************)
(* JavaScript values.  The values of a request and of a parsed JSON body   *)
(* are undefined, null, numbers, strings, booleans, arrays and plain       *)
(* objects; property access reaches further values on the prototype chain: *)
(* the built-in functions, the built-in prototype objects and the numeric  *)
(* constants of Number.                                                    *)
(***************************************************************************)
Undefined == [t |-> "undefined"]
Null == [t |-> "null"]
Num(n) == [t |-> "number", n |-> n]
Str(s) == [t |-> "string", s |-> s]
Bool(b) == [t |-> "boolean", b |-> b]
Obj(p) == [t |-> "object", props |-> p]
\* an array, by the sequence of its elements
Arr(items) == [t |-> "array", items |-> items]
\* a built-in function
Fn(nm, len) == [t |-> "function", name |-> nm, length |-> len]
\* Object.prototype, Array.prototype, Number.prototype, String.prototype,
\* Boolean.prototype, Function.prototype
Proto(of) == [t |-> "prototype", of |-> of]
\* a number that is not an integer, kept by its decimal form (NaN is the
\* falsy one)
Float(repr, nan) == [t |-> "float", repr |-> repr, nan |-> nan]

\* the object literal {}
NoProps == <<>>

Nullish(v) == v.t \in {"undefined", "null"}

\* how an evaluation or an await ends: with an exception or with a value
Rejected(message) == [threw |-> TRUE, message |-> message, value |-> Undefined]
Resolved(v) == [threw |-> FALSE, message |-> "", value |-> v]

\* !v is FALSE
Truthy(v) ==
  CASE v.t = "undefined" -> FALSE
    [] v.t = "null" -> FALSE
    [] v.t = "number" -> v.n # 0
    [] v.t = "float" -> ~v.nan
    [] v.t = "string" -> v.s # ""
    [] v.t = "boolean" -> v.b
    [] OTHER -> TRUE

Digit(d) ==
  CASE d = 0 -> "0" [] d = 1 -> "1" [] d = 2 -> "2" [] d = 3 -> "3"
    [] d = 4 -> "4" [] d = 5 -> "5" [] d = 6 -> "6" [] d = 7 -> "7"
    [] d = 8 -> "8" [] d = 9 -> "9"

RECURSIVE NatToStr(_)
NatToStr(n) == IF n < 10 THEN Digit(n) ELSE NatToStr(n \div 10) \o Digit(n % 10)

\* Number::toString for the integers
NumberToString(n) == IF n < 0 THEN "-" \o NatToStr(0 - n) ELSE NatToStr(n)

\* the strings joined with the separator ","
RECURSIVE Join(_)
Join(strings) ==
  IF strings = <<>> THEN ""
  ELSE IF Len(strings) = 1 THEN strings[1]
  ELSE strings[1] \o "," \o Join(Tail(strings))

\* the string a template literal `${v}` puts in place of v, or the TypeError:
\* an object whose own toString is not callable (every own toString of a
\* parsed object) has no primitive value; an array is the join of its
\* elements, null and undefined among them as the empty string, and throws
\* where its first element without a primitive value does
RECURSIVE ToStr(_)
ToStr(v) ==
  CASE v.t = "undefined" -> Resolved(Str("undefined"))
    [] v.t = "null" -> Resolved(Str("null"))
    [] v.t = "number" -> Resolved(Str(NumberToString(v.n)))
    [] v.t = "float" -> Resolved(Str(v.repr))
    [] v.t = "string" -> Resolved(v)
    [] v.t = "boolean" -> Resolved(Str(IF v.b THEN "true" ELSE "false"))
    [] v.t = "array" ->
         LET shown == [i \in 1..Len(v.items) |->
                         IF Nullish(v.items[i]) THEN Resolved(Str(""))
                         ELSE ToStr(v.items[i])]
             thrown == {i \in 1..Len(v.items) : shown[i].threw} IN
         IF thrown # {}
           THEN shown[CHOOSE i \in thrown : \A j \in thrown : i <= j]
           ELSE Resolved(Str(Join([i \in 1..Len(v.items) |-> shown[i].value.s])))
    [] v.t = "function" ->
         Resolved(Str("function " \o v.name \o "() { [native code] }"))
    [] v.t = "prototype" ->
         Resolved(Str(CASE v.of = "Number" -> "0"
                        [] v.of = "String" -> ""
                        [] v.of = "Array" -> ""
                        [] v.of = "Boolean" -> "false"
                        [] v.of = "Function" -> "function () { [native code] }"
                        [] OTHER -> "[object Object]"))
    [] OTHER ->
         IF "toString" \in DOMAIN v.props
           THEN Rejected("Cannot convert object to primitive value")
           ELSE Resolved(Str("[object Object]"))

(***************************************************************************)
(* The runtime.  The script runs on the Node.js the host provides; the     *)
(* built-in objects of a release carry the methods, the character data and *)
(* the wording of messages the engine had when it was made.  A process     *)
(* keeps its runtime for as long as it lives.                              *)
(***************************************************************************)
\* the major number of the release the process runs on
VARIABLE node

\* the long-term-support releases the server's dependencies run on, each in
\* its latest version (later releases add nothing to the objects a lookup
\* can reach)
NodeReleases == {18, 20, 22}

\* what the built-in objects carry from the given release on
Since(release, names) == IF node >= release THEN names ELSE {}

(***************************************************************************)
(* Strings.  A JavaScript string is a sequence of 16-bit code units; it is *)
(* written here code unit by code unit: a code unit from U+0000 to U+00FF  *)
(* stands for itself, except the backslash, written \\, and the grave      *)
(* accent, written \u0060; a code unit above U+00FF is written \uXXXX      *)
(* with four hexadecimal digits in lower case (the character U+0178 is the *)
(* six characters \u0178, a character above U+FFFF its two surrogates).    *)
(* Every JavaScript string has one such form, and joining two strings      *)
(* joins their forms.                                                      *)
(***************************************************************************)
HexDigits == "0123456789abcdef"

HexDigit(d) == SubSeq(HexDigits, d + 1, d + 1)

HexValue(c) == (CHOOSE i \in 1..16 : SubSeq(HexDigits, i, i) = c) - 1

\* the number four hexadecimal digits write, and the digits of a number
HexToNat(h) ==
  ((HexValue(SubSeq(h, 1, 1)) * 16 + HexValue(SubSeq(h, 2, 2))) * 16
     + HexValue(SubSeq(h, 3, 3))) * 16 + HexValue(SubSeq(h, 4, 4))

NatToHex(n) ==
  HexDigit(n \div 4096) \o HexDigit((n \div 256) % 16)
    \o HexDigit((n \div 16) % 16) \o HexDigit(n % 16)

\* the written form of the code unit n above U+00FF
Escape(n) == "\\u" \o NatToHex(n)

\* the code unit an escape \uXXXX writes
Escaped(u) == HexToNat(SubSeq(u, 3, 6))

\* how many characters write the first code unit of the non-empty s
UnitLen(s) ==
  IF SubSeq(s, 1, 1) # "\\" THEN 1
  ELSE IF SubSeq(s, 2, 2) = "\\" THEN 2
  ELSE 6

\* s begins with a high surrogate followed by a low one
BeginsWithPair(s) ==
  /\ Len(s) >= 12
  /\ SubSeq(s, 1, 2) = "\\u"
  /\ SubSeq(s, 7, 8) = "\\u"
  /\ Escaped(SubSeq(s, 1, 6)) \in \hD800..\hDBFF
  /\ Escaped(SubSeq(s, 7, 12)) \in \hDC00..\hDFFF

\* how many characters write the first code point of the non-empty s
CharLen(s) == IF BeginsWithPair(s) THEN 12 ELSE UnitLen(s)

\* the code units of a string, each in its written form
RECURSIVE CodeUnits(_)
UnitsFrom(s, n) == <<SubSeq(s, 1, n)>> \o CodeUnits(SubSeq(s, n + 1, Len(s)))
CodeUnits(s) == IF s = "" THEN <<>> ELSE UnitsFrom(s, UnitLen(s))

\* the code point an escape or a pair of escapes writes, and the written
\* form of a code point above U+00FF
CodePoint(c) ==
  IF Len(c) = 6 THEN Escaped(c)
  ELSE \h10000 + (Escaped(SubSeq(c, 1, 6)) - \hD800) * \h400
         + (Escaped(SubSeq(c, 7, 12)) - \hDC00)

EscapeCodePoint(n) ==
  IF n < \h10000 THEN Escape(n)
  ELSE Escape(\hD800 + (n - \h10000) \div \h400)
         \o Escape(\hDC00 + ((n - \h10000) % \h400))

(***************************************************************************)
(* String.prototype.toUpperCase: the upper case of each code point by the  *)
(* case mappings of the Unicode character database, those that give        *)
(* several characters included; no mapping depends on a locale or on the   *)
(* neighbouring characters.                                                *)
(***************************************************************************)
\* the letters of U+0000 to U+00FF that have an upper case
UpperLetter ==
  [a |-> "A", b |-> "B", c |-> "C", d |-> "D", e |-> "E", f |-> "F", g |-> "G",
   h |-> "H", i |-> "I", j |-> "J", k |-> "K", l |-> "L", m |-> "M", n |-> "N",
   o |-> "O", p |-> "P", q |-> "Q", r |-> "R", s |-> "S", t |-> "T", u |-> "U",
   v |-> "V", w |-> "W", x |-> "X", y |-> "Y", z |-> "Z"]
    @@ ("à" :> "À") @@ ("á" :> "Á") @@ ("â" :> "Â") @@ ("ã" :> "Ã")
    @@ ("ä" :> "Ä") @@ ("å" :> "Å") @@ ("æ" :> "Æ") @@ ("ç" :> "Ç")
    @@ ("è" :> "È") @@ ("é" :> "É") @@ ("ê" :> "Ê") @@ ("ë" :> "Ë")
    @@ ("ì" :> "Ì") @@ ("í" :> "Í") @@ ("î" :> "Î") @@ ("ï" :> "Ï")
    @@ ("ð" :> "Ð") @@ ("ñ" :> "Ñ") @@ ("ò" :> "Ò") @@ ("ó" :> "Ó")
    @@ ("ô" :> "Ô") @@ ("õ" :> "Õ") @@ ("ö" :> "Ö") @@ ("ø" :> "Ø")
    @@ ("ù" :> "Ù") @@ ("ú" :> "Ú") @@ ("û" :> "Û") @@ ("ü" :> "Ü")
    @@ ("ý" :> "Ý") @@ ("þ" :> "Þ")
    @@ ("ß" :> "SS") @@ ("ÿ" :> "\\u0178") @@ ("µ" :> "\\u039c")

\* the code points above U+00FF whose upper case is not one code point
\* above U+00FF
SpecialUpper ==
  ("\\u0131" :> "I") @@ ("\\u0149" :> "\\u02bcN") @@ ("\\u017f" :> "S") @@
    ("\\u01f0" :> "J\\u030c") @@ ("\\u0390" :> "\\u0399\\u0308\\u0301") @@
    ("\\u03b0" :> "\\u03a5\\u0308\\u0301") @@
    ("\\u0587" :> "\\u0535\\u0552") @@ ("\\u1e96" :> "H\\u0331") @@
    ("\\u1e97" :> "T\\u0308") @@ ("\\u1e98" :> "W\\u030a") @@
    ("\\u1e99" :> "Y\\u030a") @@ ("\\u1e9a" :> "A\\u02be") @@
    ("\\u1f50" :> "\\u03a5\\u0313") @@
    ("\\u1f52" :> "\\u03a5\\u0313\\u0300") @@
    ("\\u1f54" :> "\\u03a5\\u0313\\u0301") @@
    ("\\u1f56" :> "\\u03a5\\u0313\\u0342") @@
    ("\\u1f80" :> "\\u1f08\\u0399") @@ ("\\u1f81" :> "\\u1f09\\u0399") @@
    ("\\u1f82" :> "\\u1f0a\\u0399") @@ ("\\u1f83" :> "\\u1f0b\\u0399") @@
    ("\\u1f84" :> "\\u1f0c\\u0399") @@ ("\\u1f85" :> "\\u1f0d\\u0399") @@
    ("\\u1f86" :> "\\u1f0e\\u0399") @@ ("\\u1f87" :> "\\u1f0f\\u0399") @@
    ("\\u1f88" :> "\\u1f08\\u0399") @@ ("\\u1f89" :> "\\u1f09\\u0399") @@
    ("\\u1f8a" :> "\\u1f0a\\u0399") @@ ("\\u1f8b" :> "\\u1f0b\\u0399") @@
    ("\\u1f8c" :> "\\u1f0c\\u0399") @@ ("\\u1f8d" :> "\\u1f0d\\u0399") @@
    ("\\u1f8e" :> "\\u1f0e\\u0399") @@ ("\\u1f8f" :> "\\u1f0f\\u0399") @@
    ("\\u1f90" :> "\\u1f28\\u0399") @@ ("\\u1f91" :> "\\u1f29\\u0399") @@
    ("\\u1f92" :> "\\u1f2a\\u0399") @@ ("\\u1f93" :> "\\u1f2b\\u0399") @@
    ("\\u1f94" :> "\\u1f2c\\u0399") @@ ("\\u1f95" :> "\\u1f2d\\u0399") @@
    ("\\u1f96" :> "\\u1f2e\\u0399") @@ ("\\u1f97" :> "\\u1f2f\\u0399") @@
    ("\\u1f98" :> "\\u1f28\\u0399") @@ ("\\u1f99" :> "\\u1f29\\u0399") @@
    ("\\u1f9a" :> "\\u1f2a\\u0399") @@ ("\\u1f9b" :> "\\u1f2b\\u0399") @@
    ("\\u1f9c" :> "\\u1f2c\\u0399") @@ ("\\u1f9d" :> "\\u1f2d\\u0399") @@
    ("\\u1f9e" :> "\\u1f2e\\u0399") @@ ("\\u1f9f" :> "\\u1f2f\\u0399") @@
    ("\\u1fa0" :> "\\u1f68\\u0399") @@ ("\\u1fa1" :> "\\u1f69\\u0399") @@
    ("\\u1fa2" :> "\\u1f6a\\u0399") @@ ("\\u1fa3" :> "\\u1f6b\\u0399") @@
    ("\\u1fa4" :> "\\u1f6c\\u0399") @@ ("\\u1fa5" :> "\\u1f6d\\u0399") @@
    ("\\u1fa6" :> "\\u1f6e\\u0399") @@ ("\\u1fa7" :> "\\u1f6f\\u0399") @@
    ("\\u1fa8" :> "\\u1f68\\u0399") @@ ("\\u1fa9" :> "\\u1f69\\u0399") @@
    ("\\u1faa" :> "\\u1f6a\\u0399") @@ ("\\u1fab" :> "\\u1f6b\\u0399") @@
    ("\\u1fac" :> "\\u1f6c\\u0399") @@ ("\\u1fad" :> "\\u1f6d\\u0399") @@
    ("\\u1fae" :> "\\u1f6e\\u0399") @@ ("\\u1faf" :> "\\u1f6f\\u0399") @@
    ("\\u1fb2" :> "\\u1fba\\u0399") @@ ("\\u1fb3" :> "\\u0391\\u0399") @@
    ("\\u1fb4" :> "\\u0386\\u0399") @@ ("\\u1fb6" :> "\\u0391\\u0342") @@
    ("\\u1fb7" :> "\\u0391\\u0342\\u0399") @@
    ("\\u1fbc" :> "\\u0391\\u0399") @@ ("\\u1fc2" :> "\\u1fca\\u0399") @@
    ("\\u1fc3" :> "\\u0397\\u0399") @@ ("\\u1fc4" :> "\\u0389\\u0399") @@
    ("\\u1fc6" :> "\\u0397\\u0342") @@
    ("\\u1fc7" :> "\\u0397\\u0342\\u0399") @@
    ("\\u1fcc" :> "\\u0397\\u0399") @@
    ("\\u1fd2" :> "\\u0399\\u0308\\u0300") @@
    ("\\u1fd3" :> "\\u0399\\u0308\\u0301") @@
    ("\\u1fd6" :> "\\u0399\\u0342") @@
    ("\\u1fd7" :> "\\u0399\\u0308\\u0342") @@
    ("\\u1fe2" :> "\\u03a5\\u0308\\u0300") @@
    ("\\u1fe3" :> "\\u03a5\\u0308\\u0301") @@
    ("\\u1fe4" :> "\\u03a1\\u0313") @@ ("\\u1fe6" :> "\\u03a5\\u0342") @@
    ("\\u1fe7" :> "\\u03a5\\u0308\\u0342") @@
    ("\\u1ff2" :> "\\u1ffa\\u0399") @@ ("\\u1ff3" :> "\\u03a9\\u0399") @@
    ("\\u1ff4" :> "\\u038f\\u0399") @@ ("\\u1ff6" :> "\\u03a9\\u0342") @@
    ("\\u1ff7" :> "\\u03a9\\u0342\\u0399") @@
    ("\\u1ffc" :> "\\u03a9\\u0399") @@ ("\\ufb00" :> "FF") @@
    ("\\ufb01" :> "FI") @@ ("\\ufb02" :> "FL") @@ ("\\ufb03" :> "FFI") @@
    ("\\ufb04" :> "FFL") @@ ("\\ufb05" :> "ST") @@ ("\\ufb06" :> "ST") @@
    ("\\ufb13" :> "\\u0544\\u0546") @@ ("\\ufb14" :> "\\u0544\\u0535") @@
    ("\\ufb15" :> "\\u0544\\u053b") @@ ("\\ufb16" :> "\\u054e\\u0546") @@
    ("\\ufb17" :> "\\u0544\\u053d")

\* the code points above U+00FF whose upper case is one code point above
\* U+00FF, as of Unicode 15: <<first, last, step, offset>> stands for first,
\* first + step, ... up to last, each with its upper case offset further on
CaseRanges ==
  { <<\h0101, \h012F, 2, -1>>, <<\h0133, \h0137, 2, -1>>,
    <<\h013A, \h0148, 2, -1>>, <<\h014B, \h0177, 2, -1>>,
    <<\h017A, \h017E, 2, -1>>, <<\h0180, \h0180, 1, 195>>,
    <<\h0183, \h0185, 2, -1>>, <<\h0188, \h0188, 1, -1>>,
    <<\h018C, \h018C, 1, -1>>, <<\h0192, \h0192, 1, -1>>,
    <<\h0195, \h0195, 1, 97>>, <<\h0199, \h0199, 1, -1>>,
    <<\h019A, \h019A, 1, 163>>, <<\h019E, \h019E, 1, 130>>,
    <<\h01A1, \h01A5, 2, -1>>, <<\h01A8, \h01A8, 1, -1>>,
    <<\h01AD, \h01AD, 1, -1>>, <<\h01B0, \h01B0, 1, -1>>,
    <<\h01B4, \h01B6, 2, -1>>, <<\h01B9, \h01B9, 1, -1>>,
    <<\h01BD, \h01BD, 1, -1>>, <<\h01BF, \h01BF, 1, 56>>,
    <<\h01C5, \h01C5, 1, -1>>, <<\h01C6, \h01C6, 1, -2>>,
    <<\h01C8, \h01C8, 1, -1>>, <<\h01C9, \h01C9, 1, -2>>,
    <<\h01CB, \h01CB, 1, -1>>, <<\h01CC, \h01CC, 1, -2>>,
    <<\h01CE, \h01DC, 2, -1>>, <<\h01DD, \h01DD, 1, -79>>,
    <<\h01DF, \h01EF, 2, -1>>, <<\h01F2, \h01F2, 1, -1>>,
    <<\h01F3, \h01F3, 1, -2>>, <<\h01F5, \h01F5, 1, -1>>,
    <<\h01F9, \h021F, 2, -1>>, <<\h0223, \h0233, 2, -1>>,
    <<\h023C, \h023C, 1, -1>>, <<\h023F, \h0240, 1, 10815>>,
    <<\h0242, \h0242, 1, -1>>, <<\h0247, \h024F, 2, -1>>,
    <<\h0250, \h0250, 1, 10783>>, <<\h0251, \h0251, 1, 10780>>,
    <<\h0252, \h0252, 1, 10782>>, <<\h0253, \h0253, 1, -210>>,
    <<\h0254, \h0254, 1, -206>>, <<\h0256, \h0257, 1, -205>>,
    <<\h0259, \h0259, 1, -202>>, <<\h025B, \h025B, 1, -203>>,
    <<\h025C, \h025C, 1, 42319>>, <<\h0260, \h0260, 1, -205>>,
    <<\h0261, \h0261, 1, 42315>>, <<\h0263, \h0263, 1, -207>>,
    <<\h0265, \h0265, 1, 42280>>, <<\h0266, \h0266, 1, 42308>>,
    <<\h0268, \h0268, 1, -209>>, <<\h0269, \h0269, 1, -211>>,
    <<\h026A, \h026A, 1, 42308>>, <<\h026B, \h026B, 1, 10743>>,
    <<\h026C, \h026C, 1, 42305>>, <<\h026F, \h026F, 1, -211>>,
    <<\h0271, \h0271, 1, 10749>>, <<\h0272, \h0272, 1, -213>>,
    <<\h0275, \h0275, 1, -214>>, <<\h027D, \h027D, 1, 10727>>,
    <<\h0280, \h0280, 1, -218>>, <<\h0282, \h0282, 1, 42307>>,
    <<\h0283, \h0283, 1, -218>>, <<\h0287, \h0287, 1, 42282>>,
    <<\h0288, \h0288, 1, -218>>, <<\h0289, \h0289, 1, -69>>,
    <<\h028A, \h028B, 1, -217>>, <<\h028C, \h028C, 1, -71>>,
    <<\h0292, \h0292, 1, -219>>, <<\h029D, \h029D, 1, 42261>>,
    <<\h029E, \h029E, 1, 42258>>, <<\h0345, \h0345, 1, 84>>,
    <<\h0371, \h0373, 2, -1>>, <<\h0377, \h0377, 1, -1>>,
    <<\h037B, \h037D, 1, 130>>, <<\h03AC, \h03AC, 1, -38>>,
    <<\h03AD, \h03AF, 1, -37>>, <<\h03B1, \h03C1, 1, -32>>,
    <<\h03C2, \h03C2, 1, -31>>, <<\h03C3, \h03CB, 1, -32>>,
    <<\h03CC, \h03CC, 1, -64>>, <<\h03CD, \h03CE, 1, -63>>,
    <<\h03D0, \h03D0, 1, -62>>, <<\h03D1, \h03D1, 1, -57>>,
    <<\h03D5, \h03D5, 1, -47>>, <<\h03D6, \h03D6, 1, -54>>,
    <<\h03D7, \h03D7, 1, -8>>, <<\h03D9, \h03EF, 2, -1>>,
    <<\h03F0, \h03F0, 1, -86>>, <<\h03F1, \h03F1, 1, -80>>,
    <<\h03F2, \h03F2, 1, 7>>, <<\h03F3, \h03F3, 1, -116>>,
    <<\h03F5, \h03F5, 1, -96>>, <<\h03F8, \h03F8, 1, -1>>,
    <<\h03FB, \h03FB, 1, -1>>, <<\h0430, \h044F, 1, -32>>,
    <<\h0450, \h045F, 1, -80>>, <<\h0461, \h0481, 2, -1>>,
    <<\h048B, \h04BF, 2, -1>>, <<\h04C2, \h04CE, 2, -1>>,
    <<\h04CF, \h04CF, 1, -15>>, <<\h04D1, \h052F, 2, -1>>,
    <<\h0561, \h0586, 1, -48>>, <<\h10D0, \h10FA, 1, 3008>>,
    <<\h10FD, \h10FF, 1, 3008>>, <<\h13F8, \h13FD, 1, -8>>,
    <<\h1C80, \h1C80, 1, -6254>>, <<\h1C81, \h1C81, 1, -6253>>,
    <<\h1C82, \h1C82, 1, -6244>>, <<\h1C83, \h1C84, 1, -6242>>,
    <<\h1C85, \h1C85, 1, -6243>>, <<\h1C86, \h1C86, 1, -6236>>,
    <<\h1C87, \h1C87, 1, -6181>>, <<\h1C88, \h1C88, 1, 35266>>,
    <<\h1D79, \h1D79, 1, 35332>>, <<\h1D7D, \h1D7D, 1, 3814>>,
    <<\h1D8E, \h1D8E, 1, 35384>>, <<\h1E01, \h1E95, 2, -1>>,
    <<\h1E9B, \h1E9B, 1, -59>>, <<\h1EA1, \h1EFF, 2, -1>>,
    <<\h1F00, \h1F07, 1, 8>>, <<\h1F10, \h1F15, 1, 8>>,
    <<\h1F20, \h1F27, 1, 8>>, <<\h1F30, \h1F37, 1, 8>>,
    <<\h1F40, \h1F45, 1, 8>>, <<\h1F51, \h1F57, 2, 8>>,
    <<\h1F60, \h1F67, 1, 8>>, <<\h1F70, \h1F71, 1, 74>>,
    <<\h1F72, \h1F75, 1, 86>>, <<\h1F76, \h1F77, 1, 100>>,
    <<\h1F78, \h1F79, 1, 128>>, <<\h1F7A, \h1F7B, 1, 112>>,
    <<\h1F7C, \h1F7D, 1, 126>>, <<\h1FB0, \h1FB1, 1, 8>>,
    <<\h1FBE, \h1FBE, 1, -7205>>, <<\h1FD0, \h1FD1, 1, 8>>,
    <<\h1FE0, \h1FE1, 1, 8>>, <<\h1FE5, \h1FE5, 1, 7>>,
    <<\h214E, \h214E, 1, -28>>, <<\h2170, \h217F, 1, -16>>,
    <<\h2184, \h2184, 1, -1>>, <<\h24D0, \h24E9, 1, -26>>,
    <<\h2C30, \h2C5F, 1, -48>>, <<\h2C61, \h2C61, 1, -1>>,
    <<\h2C65, \h2C65, 1, -10795>>, <<\h2C66, \h2C66, 1, -10792>>,
    <<\h2C68, \h2C6C, 2, -1>>, <<\h2C73, \h2C73, 1, -1>>,
    <<\h2C76, \h2C76, 1, -1>>, <<\h2C81, \h2CE3, 2, -1>>,
    <<\h2CEC, \h2CEE, 2, -1>>, <<\h2CF3, \h2CF3, 1, -1>>,
    <<\h2D00, \h2D25, 1, -7264>>, <<\h2D27, \h2D27, 1, -7264>>,
    <<\h2D2D, \h2D2D, 1, -7264>>, <<\hA641, \hA66D, 2, -1>>,
    <<\hA681, \hA69B, 2, -1>>, <<\hA723, \hA72F, 2, -1>>,
    <<\hA733, \hA76F, 2, -1>>, <<\hA77A, \hA77C, 2, -1>>,
    <<\hA77F, \hA787, 2, -1>>, <<\hA78C, \hA78C, 1, -1>>,
    <<\hA791, \hA793, 2, -1>>, <<\hA794, \hA794, 1, 48>>,
    <<\hA797, \hA7A9, 2, -1>>, <<\hA7B5, \hA7C3, 2, -1>>,
    <<\hA7C8, \hA7CA, 2, -1>>, <<\hA7D1, \hA7D1, 1, -1>>,
    <<\hA7D7, \hA7D9, 2, -1>>, <<\hA7F6, \hA7F6, 1, -1>>,
    <<\hAB53, \hAB53, 1, -928>>, <<\hAB70, \hABBF, 1, -38864>>,
    <<\hFF41, \hFF5A, 1, -32>>, <<\h10428, \h1044F, 1, -40>>,
    <<\h104D8, \h104FB, 1, -40>>, <<\h10597, \h105A1, 1, -39>>,
    <<\h105A3, \h105B1, 1, -39>>, <<\h105B3, \h105B9, 1, -39>>,
    <<\h105BB, \h105BC, 1, -39>>, <<\h10CC0, \h10CF2, 1, -64>>,
    <<\h118C0, \h118DF, 1, -32>>, <<\h16E60, \h16E7F, 1, -32>>,
    <<\h1E922, \h1E943, 1, -34>> }

\* the case pairs Unicode 16 added, which the releases from Node.js 20 on know
CaseRanges16 ==
  { <<\h019B, \h019B, 1, 42561>>, <<\h0264, \h0264, 1, 42343>>,
    <<\h1C8A, \h1C8A, 1, -1>>, <<\hA7CD, \hA7CD, 1, -1>>,
    <<\hA7DB, \hA7DB, 1, -1>>, <<\h10D70, \h10D85, 1, -32>> }

\* the case pairs Unicode 17 added, which the same releases know
CaseRanges17 ==
  { <<\hA7CF, \hA7CF, 1, -1>>, <<\hA7D3, \hA7D5, 2, -1>>,
    <<\h16EBB, \h16ED3, 1, -27>> }

\* the ranges the code point n lies in (one at most)
RangesOf(n) ==
  {r \in CaseRanges \cup Since(20, CaseRanges16 \cup CaseRanges17) :
     r[1] <= n /\ n <= r[2] /\ (n - r[1]) % r[3] = 0}

Offset(ranges) == IF ranges = {} THEN 0 ELSE (CHOOSE r \in ranges : TRUE)[4]

\* the upper case of a code point of the ranges, itself for any other
UpperCodePoint(n) == n + Offset(RangesOf(n))

\* the upper case of one code point, given and returned in written form
UpperChar(c) ==
  IF c \in DOMAIN UpperLetter THEN UpperLetter[c]
  ELSE IF c \in DOMAIN SpecialUpper THEN SpecialUpper[c]
  ELSE IF Len(c) >= 6 THEN EscapeCodePoint(UpperCodePoint(CodePoint(c)))
  ELSE c

\* String.prototype.toUpperCase
RECURSIVE toUpperCase(_)
UpperFrom(s, n) == UpperChar(SubSeq(s, 1, n)) \o toUpperCase(SubSeq(s, n + 1, Len(s)))
toUpperCase(s) == IF s = "" THEN "" ELSE UpperFrom(s, CharLen(s))

(***************************************************************************)
(* Property access, v[k]: the own properties of v, then those of each      *)
(* object on its prototype chain.  The tables give the string-keyed        *)
(* properties of the built-in objects and the length of each method.       *)
(***************************************************************************)
\* a table of methods by their length
Methods(zero, one, two, three) ==
  [k \in zero \cup one \cup two \cup three |->
     IF k \in zero THEN 0 ELSE IF k \in one THEN 1 ELSE IF k \in two THEN 2 ELSE 3]

ObjectPrototypeMethods ==
  Methods({"toString", "valueOf", "toLocaleString"},
          {"hasOwnProperty", "isPrototypeOf", "propertyIsEnumerable",
           "__lookupGetter__", "__lookupSetter__"},
          {"__defineGetter__", "__defineSetter__"},
          {})

NumberPrototypeMethods ==
  Methods({"valueOf", "toLocaleString"},
          {"toString", "toFixed", "toExponential", "toPrecision"},
          {}, {})

BooleanPrototypeMethods == Methods({"toString", "valueOf"}, {}, {}, {})

FunctionPrototypeMethods == Methods({"toString"}, {"bind", "call"}, {"apply"}, {})

ArrayPrototypeMethods ==
  Methods({"entries", "flat", "keys", "pop", "reverse", "shift", "toLocaleString",
           "toString", "values"} \cup Since(20, {"toReversed"}),
          {"at", "concat", "every", "fill", "filter", "find", "findIndex",
           "findLast", "findLastIndex", "flatMap", "forEach", "includes",
           "indexOf", "join", "lastIndexOf", "map", "push", "reduce",
           "reduceRight", "some", "sort", "unshift"} \cup Since(20, {"toSorted"}),
          {"copyWithin", "slice", "splice"} \cup Since(20, {"toSpliced", "with"}),
          {})

StringPrototypeMethods ==
  Methods({"big", "blink", "bold", "fixed", "italics", "normalize",
           "small", "strike", "sub", "sup", "toLocaleLowerCase",
           "toLocaleUpperCase", "toLowerCase", "toString", "toUpperCase",
           "trim", "trimEnd", "trimStart", "trimLeft", "trimRight", "valueOf"}
            \cup Since(20, {"isWellFormed", "toWellFormed"}),
          {"anchor", "at", "charAt", "charCodeAt", "codePointAt", "concat",
           "endsWith", "fontcolor", "fontsize", "includes", "indexOf",
           "lastIndexOf", "link", "localeCompare", "match", "matchAll", "padEnd",
           "padStart", "repeat", "search", "startsWith"},
          {"replace", "replaceAll", "slice", "split", "substr", "substring"},
          {})

PrototypeMethods(of) ==
  CASE of = "Object" -> ObjectPrototypeMethods
    [] of = "Array" -> ArrayPrototypeMethods
    [] of = "Number" -> NumberPrototypeMethods
    [] of = "String" -> StringPrototypeMethods
    [] of = "Boolean" -> BooleanPrototypeMethods
    [] OTHER -> FunctionPrototypeMethods

ObjectStatics ==
  Methods({},
          {"entries", "freeze", "fromEntries", "getOwnPropertyDescriptors",
           "getOwnPropertyNames", "getOwnPropertySymbols", "getPrototypeOf",
           "isExtensible", "isFrozen", "isSealed", "keys", "preventExtensions",
           "seal", "values"},
          {"assign", "create", "defineProperties", "getOwnPropertyDescriptor",
           "hasOwn", "is", "setPrototypeOf"} \cup Since(21, {"groupBy"}),
          {"defineProperty"})

ArrayStatics ==
  Methods({"of"}, {"from", "isArray"} \cup Since(22, {"fromAsync"}), {}, {})

NumberStatics ==
  Methods({}, {"isFinite", "isInteger", "isNaN", "isSafeInteger", "parseFloat"},
          {"parseInt"}, {})

StringStatics == Methods({}, {"fromCharCode", "fromCodePoint", "raw"}, {}, {})

\* the methods a constructor carries itself
Statics(name) ==
  CASE name = "Object" -> ObjectStatics
    [] name = "Array" -> ArrayStatics
    [] name = "Number" -> NumberStatics
    [] name = "String" -> StringStatics
    [] OTHER -> Methods({}, {}, {}, {})

\* the numeric constants Number carries
NumberConstants ==
  [MAX_VALUE |-> Float("1.7976931348623157e+308", FALSE),
   MIN_VALUE |-> Float("5e-324", FALSE),
   EPSILON |-> Float("2.220446049250313e-16", FALSE),
   MAX_SAFE_INTEGER |-> Float("9007199254740991", FALSE),
   MIN_SAFE_INTEGER |-> Float("-9007199254740991", FALSE),
   POSITIVE_INFINITY |-> Float("Infinity", FALSE),
   NEGATIVE_INFINITY |-> Float("-Infinity", FALSE),
   NaN |-> Float("NaN", TRUE)]

\* the built-in constructors, each a function of length 1
Constructors == {"Object", "Array", "Number", "String", "Boolean", "Function"}

\* the name of the method found under k (trimLeft and trimRight are the
\* functions trimStart and trimEnd)
MethodName(k) ==
  CASE k = "trimLeft" -> "trimStart"
    [] k = "trimRight" -> "trimEnd"
    [] OTHER -> k

\* what a lookup finds besides a value: nothing, the accessor __proto__ of
\* Object.prototype, or the accessors caller and arguments of
\* Function.prototype, which throw
Absent == [t |-> "absent"]
ProtoAccessor == [t |-> "accessor", get |-> "prototype"]
PoisonAccessor == [t |-> "accessor", get |-> "throw"]

PoisonMessage ==
  "'caller', 'callee', and 'arguments' properties may not be accessed on "
    \o "strict mode functions or the arguments objects for calls to them"

DigitChars == {"0", "1", "2", "3", "4", "5", "6", "7", "8", "9"}

DigitValue(c) == CHOOSE d \in 0..9 : Digit(d) = c

RECURSIVE StrToNat(_)
StrToNat(k) ==
  IF Len(k) = 1 THEN DigitValue(k)
  ELSE 10 * StrToNat(SubSeq(k, 1, Len(k) - 1)) + DigitValue(SubSeq(k, Len(k), Len(k)))

\* the index k is the canonical form of, -1 when it is of none
ArrayIndex(k) ==
  IF /\ k # ""
     /\ Len(k) <= 9
     /\ \A i \in 1..Len(k) : SubSeq(k, i, i) \in DigitChars
     /\ k = "0" \/ SubSeq(k, 1, 1) # "0"
    THEN StrToNat(k)
    ELSE -1

\* the indexed elements of an array, the characters of a string
Elements(v) ==
  IF v.t = "array" THEN v.items
  ELSE [i \in 1..Len(CodeUnits(v.s)) |-> Str(CodeUnits(v.s)[i])]

\* the own property k of v
OwnProp(v, k) ==
  CASE v.t = "object" ->
         (IF k \in DOMAIN v.props THEN v.props[k] ELSE Absent)
    [] v.t \in {"array", "string"} ->
         (IF k = "length" THEN Num(Len(Elements(v)))
          ELSE LET i == ArrayIndex(k) IN
               IF i >= 0 /\ i < Len(Elements(v)) THEN Elements(v)[i + 1]
               ELSE Absent)
    [] v.t = "function" ->
         (IF k = "name" THEN Str(v.name)
          ELSE IF k = "length" THEN Num(v.length)
          ELSE IF v.name \notin Constructors THEN Absent
          ELSE IF k = "prototype" THEN Proto(v.name)
          ELSE IF k \in DOMAIN Statics(v.name) THEN Fn(k, Statics(v.name)[k])
          ELSE IF v.name = "Number" /\ k \in DOMAIN NumberConstants
            THEN NumberConstants[k]
          ELSE Absent)
    [] v.t = "prototype" ->
         (IF k = "constructor" THEN Fn(v.of, 1)
          ELSE IF k \in DOMAIN PrototypeMethods(v.of)
            THEN Fn(MethodName(k), PrototypeMethods(v.of)[k])
          ELSE IF v.of = "Object" /\ k = "__proto__" THEN ProtoAccessor
          ELSE IF v.of = "Function" /\ k \in {"caller", "arguments"}
            THEN PoisonAccessor
          ELSE IF v.of = "Function" /\ k = "name" THEN Str("")
          ELSE IF v.of \in {"Function", "String", "Array"} /\ k = "length"
            THEN Num(0)
          ELSE Absent)
    [] OTHER -> Absent

\* the object v inherits from (null at the end of the chain)
PrototypeOf(v) ==
  CASE v.t = "object" -> Proto("Object")
    [] v.t = "array" -> Proto("Array")
    [] v.t \in {"number", "float"} -> Proto("Number")
    [] v.t = "string" -> Proto("String")
    [] v.t = "boolean" -> Proto("Boolean")
    [] v.t = "function" -> Proto("Function")
    [] v.t = "prototype" /\ v.of # "Object" -> Proto("Object")
    [] OTHER -> Null

\* the property k found on v or on the chain above it
RECURSIVE FindProp(_, _)
FindProp(v, k) ==
  IF v.t = "null" THEN Absent
  ELSE LET own == OwnProp(v, k) IN
       IF own.t # "absent" THEN own ELSE FindProp(PrototypeOf(v), k)

\* what the property found gives to the receiver v
ValueOf(v, found) ==
  IF found.t = "absent" THEN Resolved(Undefined)
  ELSE IF found.t = "accessor"
    THEN (IF found.get = "prototype" THEN Resolved(PrototypeOf(v))
          ELSE Rejected(PoisonMessage))
  ELSE Resolved(found)

\* v[k] for v neither null nor undefined
GetProp(v, k) == ValueOf(v, FindProp(v, k))

(***************************************************************************)
(* Argument validation: PriceArgsSchema.parse.                             *)
(***************************************************************************)
\* a default written in upper case
DefaultCurrencyUpper == "USD"

\* the default of the currency field
DefaultCurrency == "usd"

\* the name the call handler compares with, and the descriptor's name
ToolName == "get-crypto-price"

\* the type name a validation issue reports for a value
ReceivedType(v) ==
  CASE v.t = "float" -> IF v.nan THEN "nan" ELSE "number"
    [] v.t = "prototype" ->
         IF v.of = "Array" THEN "array"
         ELSE IF v.of = "Function" THEN "function"
         ELSE "object"
    [] OTHER -> v.t

\* raw[k] as the schema reads it, for the keys coin and currency
Field(raw, k) == GetProp(raw, k).value

\* a validation issue: its fields in the order the library prints them
InvalidType(expected, v, path) ==
  [code |-> "invalid_type", expected |-> expected, received |-> ReceivedType(v),
   path |-> path,
   message |-> IF v.t = "undefined" THEN "Required"
               ELSE "Expected " \o expected \o ", received " \o ReceivedType(v)]

TooSmall(path) ==
  [code |-> "too_small", path |-> path,
   message |-> "String must contain at least 1 character(s)"]

\* z.string() without .min(1)
CoinIssuesNoMin(v) ==
  IF v.t # "string" THEN <<InvalidType("string", v, <<"coin">>)>> ELSE <<>>

\* z.string().min(1)
CoinIssues(v) ==
  IF v.t # "string" THEN <<InvalidType("string", v, <<"coin">>)>>
  ELSE IF Len(v.s) < 1 THEN <<TooSmall(<<"coin">>)>>
  ELSE <<>>

\* z.string().optional().default("usd")
CurrencyIssues(v) ==
  IF v.t \in {"undefined", "string"} THEN <<>>
  ELSE <<InvalidType("string", v, <<"currency">>)>>

\* the issues z.object({coin, currency}) collects
SchemaIssues(raw) ==
  IF ReceivedType(raw) # "object" THEN <<InvalidType("object", raw, <<>>)>>
  ELSE CoinIssues(Field(raw, "coin")) \o CurrencyIssues(Field(raw, "currency"))

\* a path printed as JSON with an indent of 2, at depth 2
PathJson(path) ==
  IF path = <<>> THEN "\"path\": []"
  ELSE "\"path\": [\n      \"" \o path[1] \o "\"\n    ]"

\* an issue printed as JSON with an indent of 2, at depth 1
IssueJson(i) ==
  IF i.code = "invalid_type"
    THEN "  {\n    \"code\": \"invalid_type\",\n    \"expected\": \"" \o i.expected
           \o "\",\n    \"received\": \"" \o i.received \o "\",\n    "
           \o PathJson(i.path) \o ",\n    \"message\": \"" \o i.message
           \o "\"\n  }"
    ELSE "  {\n    \"code\": \"too_small\",\n    \"minimum\": 1,\n"
           \o "    \"type\": \"string\",\n    \"inclusive\": true,\n"
           \o "    \"exact\": false,\n    \"message\": \"" \o i.message
           \o "\",\n    " \o PathJson(i.path) \o "\n  }"

RECURSIVE IssuesJson(_)
IssuesJson(issues) ==
  IF Len(issues) = 1 THEN IssueJson(issues[1])
  ELSE IssueJson(Head(issues)) \o ",\n" \o IssuesJson(Tail(issues))

\* the message of the error parse throws: the issue list printed as JSON with
\* an indent of 2
IssuesMessage(issues) == "[\n" \o IssuesJson(issues) \o "\n]"

\* PriceArgsSchema.parse(rawArgs): the parsed {coin, currency}, or the throw
PriceArgsSchemaParse(raw) ==
  LET issues == SchemaIssues(raw) IN
  IF issues # <<>>
    THEN [ok |-> FALSE, message |-> IssuesMessage(issues), coin |-> "", currency |-> ""]
    ELSE [ok |-> TRUE, message |-> "",
          coin |-> Field(raw, "coin").s,
          currency |-> IF Field(raw, "currency").t = "undefined"
                         THEN DefaultCurrency
                         ELSE Field(raw, "currency").s]

(***************************************************************************)
(* The pieces of the call handler.                                         *)
(***************************************************************************)
\* the template literal of the request URL
Url(coin, currency) ==
  "https://api.coingecko.com/api/v3/simple/price?ids=" \o coin
    \o "&vs_currencies=" \o currency

\* a lookup under the upper-cased identifiers
LookupPriceUpper(data, coin, currency) ==
  IF Nullish(data)
    THEN Rejected("Cannot read properties of " \o data.t
                    \o " (reading '" \o toUpperCase(coin) \o "')")
    ELSE LET inner == GetProp(data, toUpperCase(coin)) IN
         IF inner.threw THEN inner
         ELSE IF Nullish(inner.value) THEN Resolved(Undefined)
         ELSE GetProp(inner.value, toUpperCase(currency))

\* data[coin]?.[currency]: a TypeError when data is null, undefined when
\* data[coin] is null or undefined
LookupPrice(data, coin, currency) ==
  IF Nullish(data)
    THEN Rejected("Cannot read properties of " \o data.t
                    \o " (reading '" \o coin \o "')")
    ELSE LET inner == GetProp(data, coin) IN
         IF inner.threw THEN inner
         ELSE IF Nullish(inner.value) THEN Resolved(Undefined)
         ELSE GetProp(inner.value, currency)

NotFoundText(coin, currency) ==
  "Could not find price for " \o coin \o " in " \o currency \o "."

\* a success text that keeps the currency as supplied
SuccessTextAsSupplied(coin, price, currency) ==
  LET shown == ToStr(price) IN
  IF shown.threw THEN shown
  ELSE Resolved(Str(toUpperCase(coin) \o " = " \o shown.value.s \o " " \o currency))

\* the template literal of the success text, or the TypeError of ${price}
SuccessText(coin, price, currency) ==
  LET shown == ToStr(price) IN
  IF shown.threw THEN shown
  ELSE Resolved(Str(toUpperCase(coin) \o " = " \o shown.value.s \o " "
                      \o toUpperCase(currency)))

ErrorText(message) == "Error: " \o message

UnknownToolMessage(name) == "Unknown tool: " \o name

\* what a handler invocation ends with: a returned result or a thrown Error
TextResult(text) ==
  [threw |-> FALSE, message |-> "", content |-> <<[type |-> "text", text |-> text]>>,
   tools |-> <<>>]
Thrown(message) ==
  [threw |-> TRUE, message |-> message, content |-> <<>>, tools |-> <<>>]
NoResult == [threw |-> FALSE, message |-> "", content |-> <<>>, tools |-> <<>>]

\* the descriptor the list handler returns
ToolDescriptor ==
  [name |-> ToolName,
   description |-> "Fetch current price of a cryptocurrency from CoinGecko",
   inputSchema |->
     [type |-> "object",
      properties |->
        [coin |-> [type |-> "string",
                   description |-> "CoinGecko coin ID (e.g., bitcoin, ethereum)"],
         currency |-> [type |-> "string",
                       description |-> "Fiat currency (e.g., usd, eur). Default is 'usd'."]],
      required |-> <<"coin">>]]

ListToolsResult ==
  [threw |-> FALSE, message |-> "", content |-> <<>>, tools |-> <<ToolDescriptor>>]

(***************************************************************************)
(* Requests and outcomes the exploration draws from.                       *)
(***************************************************************************)
\* request.params.arguments: absent, or a JSON value
RawArgsSamples ==
  { Undefined,
    Arr(<<>>),
    Obj(NoProps),
    Obj([coin |-> Num(5)]),
    Obj([coin |-> Arr(<<Str("bitcoin")>>)]),
    Obj([coin |-> Str("")]),
    Obj([coin |-> Str("bitcoin"), currency |-> Num(5)]),
    Obj([coin |-> Str("bitcoin"), currency |-> Float("0.5", FALSE)]),
    Obj([coin |-> Str("bitcoin"), currency |-> Null]),
    Obj([coin |-> Str("bitcoin")]),
    Obj([coin |-> Str("bitcoin"), currency |-> Str("eur")]),
    Obj([coin |-> Str("Bitcoin"), currency |-> Str("Usd")]),
    Obj([coin |-> Str("constructor"), currency |-> Str("name")]),
    Obj([coin |-> Str("constructor"), currency |-> Str("groupBy")]),
    Obj([coin |-> Str("\\ufb01\\u01c6"), currency |-> Str("")]) }

\* names that are not the tool's
OtherNames == {"not-a-real-tool", "GET-CRYPTO-PRICE"}

\* request.params of the call-tool requests: the tool with each of the
\* arguments, the other names without arguments and with valid ones
CallRequests ==
  {[name |-> ToolName, arguments |-> a] : a \in RawArgsSamples}
    \cup {[name |-> n, arguments |-> a] :
            n \in OtherNames, a \in {Undefined, Obj([coin |-> Str("bitcoin")])}}

\* why fetch rejects
FetchReasons == {"getaddrinfo ENOTFOUND api.coingecko.com"}

\* why res.json() rejects: the message of the SyntaxError JSON.parse throws
\* on the body <html>, as the release words it
JsonReasons ==
  {IF node >= 20 THEN "Unexpected token '<', \"<html>\" is not valid JSON"
   ELSE "Unexpected token < in JSON at position 0"}

\* the message of the error fetch rejects with
FetchErrorMessage(url, reason) ==
  "request to " \o url \o " failed, reason: " \o reason

\* the message of the error res.json() rejects with
JsonErrorMessage(url, reason) ==
  "invalid json response body at " \o url \o " reason: " \o reason

\* what res.json() resolves to
Bodies ==
  { Null,
    Num(5),
    Arr(<<>>),
    Obj(NoProps),
    Obj([bitcoin |-> Null]),
    Obj([bitcoin |-> Obj([usd |-> Num(65000)])]),
    Obj([bitcoin |-> Obj([usd |-> Num(0)])]),
    Obj([bitcoin |-> Obj([usd |-> Null])]),
    Obj([bitcoin |-> Obj([usd |-> Str("")])]),
    Obj([bitcoin |-> Obj([usd |-> Str("65000.50")])]),
    Obj([bitcoin |-> Obj([usd |-> Obj([toString |-> Num(1)])])]),
    Obj([bitcoin |-> Obj([usd |-> Arr(<<Num(1), Null, Arr(<<Num(2)>>)>>)])]),
    Obj([bitcoin |-> Obj([usd |-> Arr(<<Obj([toString |-> Num(1)])>>)])]),
    Obj([bitcoin |-> Obj([eur |-> Num(60000)])]),
    Obj(("\\ufb01\\u01c6" :> Obj(("" :> Num(3))))),
    Obj([bitcoin |-> Obj([usd |-> Num(65000), eur |-> Num(60000), Usd |-> Num(1)]),
         Bitcoin |-> Obj([Usd |-> Num(7), USD |-> Num(8), usd |-> Num(9)]),
         BITCOIN |-> Obj([USD |-> Num(10), Usd |-> Num(11)])]) }

(***************************************************************************)
(* State.                                                                  *)
(*   node      the release the process runs on                             *)
(*   dispatch  how the Server hands requests to the handlers               *)
(*   suspended the suspended invocations of the call handler, a bag: where *)
(*             each waits (pc), its request (name, rawArgs), its locals    *)
(*             (coin, currency, url), the GETs it has issued (gets) and    *)
(*             how its promises settled (fetched, parsed, fault, data)     *)
(*   last      the invocation that ended last, with what it returned or    *)
(*             threw (result)                                              *)
(*   received  requests dispatched to a handler                            *)
(*   responded handler invocations that returned or threw                  *)
(***************************************************************************)
VARIABLES dispatch, suspended, last, received, responded

vars == <<node, dispatch, suspended, last, received, responded>>

\* the ways a Server may hand requests to the handlers registered with it:
\* the next request only when the handling of the last has ended, or each
\* request as it arrives
Dispatches == {"one at a time", "as they arrive"}

\* the Server can hand a request to its handler
Ready == dispatch = "as they arrive" \/ suspended = EmptyBag

Idle ==
  [pc |-> "idle", name |-> "", rawArgs |-> Undefined, coin |-> "", currency |-> "",
   url |-> "", gets |-> 0, fetched |-> "pending", parsed |-> "pending",
   fault |-> "", data |-> Undefined, result |-> NoResult]

Suspended(f) == f.pc \in {"awaitFetch", "awaitJson"}

\* the invocations in flight
InFlight == BagToSet(suspended)

\* the locals of the invocation f: each invocation has its own
Closure(f) == [coin |-> f.coin, currency |-> f.currency, url |-> f.url]

\* the invocation f as it resumes
Resume(f) ==
  [f EXCEPT !.coin = Closure(f).coin,
            !.currency = Closure(f).currency,
            !.url = Closure(f).url]

\* a list handler whose answer depends on the requests answered before
ListToolsHandlerForgetful ==
  [Idle EXCEPT !.pc = "listed",
               !.result = IF responded > 0
                            THEN [ListToolsResult EXCEPT !.tools = <<>>]
                            ELSE ListToolsResult]

\* the list handler: returns the descriptor, awaits nothing
ListToolsHandler ==
  [Idle EXCEPT !.pc = "listed", !.result = ListToolsResult]

\* a name test that ignores letter case
IsPriceToolAnyCase(name) == toUpperCase(name) = toUpperCase(ToolName)

\* name === "get-crypto-price"
IsPriceTool(name) == name = ToolName

\* a catch block that lets the error go on to the caller
Rethrown(f, message) ==
  [f EXCEPT !.pc = "threw", !.result = Thrown(message)]

\* the catch block: the error's message becomes a text result
Caught(f, message) ==
  [f EXCEPT !.pc = "caught", !.result = TextResult(ErrorText(message))]

\* the call handler from its entry to `await fetch(url)`, or to its end
CallToolHandler(name, rawArgs) ==
  LET f == [Idle EXCEPT !.name = name, !.rawArgs = rawArgs] IN
  IF IsPriceTool(name)
    THEN LET args == PriceArgsSchemaParse(rawArgs) IN
         IF args.ok
           THEN [f EXCEPT !.pc = "awaitFetch",
                          !.coin = args.coin,
                          !.currency = args.currency,
                          !.url = Url(args.coin, args.currency),
                          !.gets = 1]
           ELSE Caught(f, args.message)
    ELSE [f EXCEPT !.pc = "threw", !.result = Thrown(UnknownToolMessage(name))]

\* a handler that asks once more when fetch rejects
AfterFetchRetry(f, outcome) ==
  IF outcome.threw
    THEN IF f.gets < 2
           THEN [f EXCEPT !.gets = f.gets + 1]
           ELSE Caught([f EXCEPT !.fetched = "rejected", !.fault = outcome.message],
                       outcome.message)
    ELSE [f EXCEPT !.pc = "awaitJson", !.fetched = "resolved"]

\* the call handler from the settling of fetch(url) to `await res.json()`, or
\* to its end in the catch block
AfterFetch(f, outcome) ==
  IF outcome.threw
    THEN Caught([f EXCEPT !.fetched = "rejected", !.fault = outcome.message],
                outcome.message)
    ELSE [f EXCEPT !.pc = "awaitJson", !.fetched = "resolved"]

\* the call handler from the settling of res.json() to its end
AfterJson(f, outcome) ==
  IF outcome.threw
    THEN Caught([f EXCEPT !.parsed = "rejected", !.fault = outcome.message],
                outcome.message)
    ELSE LET data == outcome.value
             g == [f EXCEPT !.parsed = "resolved", !.data = data]
             price == LookupPrice(data, f.coin, f.currency) IN
         IF price.threw THEN Caught(g, price.message)
         ELSE IF ~Truthy(price.value)
           THEN [g EXCEPT !.pc = "returned",
                          !.result = TextResult(NotFoundText(f.coin, f.currency))]
         ELSE LET text == SuccessText(f.coin, price.value, f.currency) IN
              IF text.threw THEN Caught(g, text.message)
              ELSE [g EXCEPT !.pc = "returned", !.result = TextResult(text.value.s)]

Init ==
  /\ node \in NodeReleases
  /\ dispatch \in Dispatches
  /\ suspended = EmptyBag
  /\ last = Idle
  /\ received = 0
  /\ responded = 0

\* a list-tools request arrives and is answered
ListTools ==
  /\ Ready
  /\ received < MaxRequests
  /\ received' = received + 1
  /\ last' = ListToolsHandler
  /\ responded' = responded + 1
  /\ UNCHANGED <<node, dispatch, suspended>>

\* a call-tool request arrives; its handler runs until it ends or suspends
CallTool(name, rawArgs) ==
  /\ Ready
  /\ received < MaxRequests
  /\ received' = received + 1
  /\ LET f == CallToolHandler(name, rawArgs) IN
     IF Suspended(f)
       THEN /\ BagCardinality(suspended) < MaxInFlight
            /\ suspended' = suspended (+) SetToBag({f})
            /\ UNCHANGED <<last, responded>>
       ELSE /\ last' = f
            /\ responded' = responded + 1
            /\ UNCHANGED suspended
  /\ UNCHANGED <<node, dispatch>>

\* the promise of fetch(url) settles and the invocation f resumes
FetchSettles(f, outcome) ==
  /\ f.pc = "awaitFetch"
  /\ LET g == AfterFetch(Resume(f), outcome) IN
     IF Suspended(g)
       THEN /\ suspended' = (suspended (-) SetToBag({f})) (+) SetToBag({g})
            /\ UNCHANGED <<last, responded>>
       ELSE /\ suspended' = suspended (-) SetToBag({f})
            /\ last' = g
            /\ responded' = responded + 1
  /\ UNCHANGED <<node, dispatch, received>>

\* the promise of res.json() settles and the invocation f resumes
JsonSettles(f, outcome) ==
  /\ f.pc = "awaitJson"
  /\ LET g == AfterJson(Resume(f), outcome) IN
     IF Suspended(g)
       THEN /\ suspended' = (suspended (-) SetToBag({f})) (+) SetToBag({g})
            /\ UNCHANGED <<last, responded>>
       ELSE /\ suspended' = suspended (-) SetToBag({f})
            /\ last' = g
            /\ responded' = responded + 1
  /\ UNCHANGED <<node, dispatch, received>>

FetchOutcomes(f) ==
  {Resolved(Undefined)}
    \cup {Rejected(FetchErrorMessage(f.url, r)) : r \in FetchReasons}

JsonOutcomes(f) ==
  {Resolved(b) : b \in Bodies}
    \cup {Rejected(JsonErrorMessage(f.url, r)) : r \in JsonReasons}

Next ==
  \/ ListTools
  \/ \E req \in CallRequests : CallTool(req.name, req.arguments)
  \/ \E f \in InFlight : \E outcome \in FetchOutcomes(f) : FetchSettles(f, outcome)
  \/ \E f \in InFlight : \E outcome \in JsonOutcomes(f) : JsonSettles(f, outcome)

Spec == Init /\ [][Next]_vars

(***************************************************************************)
(* Vocabulary of the properties.  The request is read here directly, not   *)
(* through the schema: what the caller sent and what the promises settled  *)
(* to on one side, what the handler answered on the other.                 *)
(***************************************************************************)
\* the last invocation to end was one of the call handler
CallEnded == last.pc \in {"threw", "caught", "returned"}

Present(raw, k) == raw.t = "object" /\ k \in DOMAIN raw.props

HasString(raw, k) == Present(raw, k) /\ raw.props[k].t = "string"

\* coin a non-empty string, currency a string when present
ArgsValid(raw) ==
  /\ HasString(raw, "coin")
  /\ raw.props["coin"].s # ""
  /\ Present(raw, "currency") => HasString(raw, "currency")

ReqCoin(raw) == raw.props["coin"].s

ReqCurrency(raw) ==
  IF Present(raw, "currency") THEN raw.props["currency"].s ELSE "usd"

\* a validated call of the price tool
PriceCall(e) == e.name = "get-crypto-price" /\ ArgsValid(e.rawArgs)

\* the result is a normal response holding the one text block `text`
OneText(r, text) ==
  /\ ~r.threw
  /\ r.content = <<[type |-> "text", text |-> text]>>

StartsWith(s, prefix) ==
  Len(s) >= Len(prefix) /\ SubSeq(s, 1, Len(prefix)) = prefix

\* responseBody[coin][currency], undefined when responseBody[coin] is absent
\* (the value, or the exception of the access)
PriceAt(body, coin, currency) ==
  LET inner == GetProp(body, coin) IN
  IF inner.threw THEN inner
  ELSE IF Nullish(inner.value) THEN Resolved(Undefined)
  ELSE GetProp(inner.value, currency)

\* the body holds a non-falsy value at responseBody[coin][currency]
HoldsPrice(body, coin, currency) ==
  /\ ~Nullish(body)
  /\ ~PriceAt(body, coin, currency).threw
  /\ Truthy(PriceAt(body, coin, currency).value)

\* the body can be read at [coin][currency] and holds nothing or a falsy value
HoldsNoPrice(body, coin, currency) ==
  /\ ~Nullish(body)
  /\ ~PriceAt(body, coin, currency).threw
  /\ ~Truthy(PriceAt(body, coin, currency).value)

\* the value has a string form: all but the objects with a toString entry
\* of their own and the arrays that hold one
RECURSIVE Printable(_)
Printable(v) ==
  CASE v.t = "object" -> "toString" \notin DOMAIN v.props
    [] v.t = "array" ->
         \A i \in 1..Len(v.items) : Nullish(v.items[i]) \/ Printable(v.items[i])
    [] OTHER -> TRUE

\* the string form of a printable value
Shown(v) == ToStr(v).value.s

\* the entry the body itself holds for coin and currency, undefined when it
\* holds none
OwnEntry(body, coin, currency) ==
  IF /\ body.t = "object"
     /\ coin \in DOMAIN body.props
     /\ body.props[coin].t = "object"
     /\ currency \in DOMAIN body.props[coin].props
    THEN body.props[coin].props[currency]
    ELSE Undefined

\* the handler read a response body
BodyRead(e) == e.parsed = "resolved"

\* the identifiers of the requests and their upper case, letter by letter
Capitals ==
  [bitcoin |-> "BITCOIN", Bitcoin |-> "BITCOIN", constructor |-> "CONSTRUCTOR",
   usd |-> "USD", Usd |-> "USD", eur |-> "EUR", name |-> "NAME",
   groupBy |-> "GROUPBY"]
    @@ ("" :> "") @@ ("\\ufb01\\u01c6" :> "FI\\u01c4")

InCapitals(s) == Capitals[s]

(***************************************************************************)
(* C1: a call-tool request whose name is not exactly "get-crypto-price"    *)
(* ends, whatever its arguments, with the thrown error "Unknown tool:      *)
(* <name>" and no content block; a call that names the tool never throws,  *)
(* it ends with one text block; only calls that name the tool are ever     *)
(* suspended.                                                              *)
(***************************************************************************)
C1_OnlyUnknownToolThrows ==
  /\ \A f \in InFlight : f.name = "get-crypto-price"
  /\ CallEnded =>
       IF last.name # "get-crypto-price"
         THEN /\ last.result.threw
              /\ last.result.message = "Unknown tool: " \o last.name
              /\ last.result.content = <<>>
         ELSE /\ ~last.result.threw
              /\ Len(last.result.content) = 1
              /\ last.result.content[1].type = "text"

C1_Witness ==
  /\ CallEnded
  /\ last.name = "not-a-real-tool"
  /\ ArgsValid(last.rawArgs)
  /\ last.result.threw
  /\ last.result.message = "Unknown tool: not-a-real-tool"

(***************************************************************************)
(* C2: when a validated call's fetch rejects, or its res.json() rejects,   *)
(* the handler returns one text block "Error: " followed by the message of *)
(* the rejection; nothing is thrown.                                       *)
(***************************************************************************)
C2_TransportFaultsBecomeText ==
  (CallEnded /\ PriceCall(last)
     /\ (last.fetched = "rejected" \/ last.parsed = "rejected")) =>
    /\ OneText(last.result, "Error: " \o last.fault)
    /\ last.fetched = "rejected" =>
         last.fault = "request to https://api.coingecko.com/api/v3/simple/price?ids="
                        \o ReqCoin(last.rawArgs) \o "&vs_currencies="
                        \o ReqCurrency(last.rawArgs)
                        \o " failed, reason: getaddrinfo ENOTFOUND api.coingecko.com"

C2_Witness ==
  /\ CallEnded /\ PriceCall(last)
  /\ last.fetched = "resolved"
  /\ last.parsed = "rejected"
  /\ StartsWith(last.result.content[1].text, "Error: invalid json response body at ")

(***************************************************************************)
(* C3: a call of the price tool whose arguments fail validation (absent,   *)
(* coin absent, coin not a string, coin empty, currency present but not a  *)
(* string) ends with a normal response of one text block starting with     *)
(* "Error: "; it is not thrown and the call is never suspended.            *)
(***************************************************************************)
C3_ValidationFailureIsText ==
  /\ \A f \in InFlight : ArgsValid(f.rawArgs)
  /\ (CallEnded /\ last.name = "get-crypto-price" /\ ~ArgsValid(last.rawArgs)) =>
       /\ ~last.result.threw
       /\ Len(last.result.content) = 1
       /\ last.result.content[1].type = "text"
       /\ StartsWith(last.result.content[1].text, "Error: ")

C3_Witness ==
  /\ CallEnded
  /\ last.name = "get-crypto-price"
  /\ last.rawArgs = Obj([coin |-> Str("bitcoin"), currency |-> Num(5)])
  /\ StartsWith(last.result.content[1].text, "Error: ")

(***************************************************************************)
(* C4: for a call with a non-empty string coin and no currency argument,   *)
(* the currency is "usd" in the URL queried, in the key looked up in the   *)
(* body, and in the text: "USD" in the success text, "usd" in the          *)
(* not-found text.                                                         *)
(***************************************************************************)
C4_Default(e) ==
  (PriceCall(e) /\ ~Present(e.rawArgs, "currency")) =>
    LET coin == ReqCoin(e.rawArgs)
        price == PriceAt(e.data, coin, "usd").value IN
    /\ e.currency = "usd"
    /\ e.url = "https://api.coingecko.com/api/v3/simple/price?ids="
                 \o coin \o "&vs_currencies=usd"
    /\ (BodyRead(e) /\ HoldsPrice(e.data, coin, "usd") /\ Printable(price)) =>
         OneText(e.result, InCapitals(coin) \o " = " \o Shown(price) \o " USD")
    /\ (BodyRead(e) /\ HoldsNoPrice(e.data, coin, "usd")) =>
         OneText(e.result, "Could not find price for " \o coin \o " in usd.")

C4_DefaultCurrencyIsUsd ==
  /\ \A f \in InFlight : C4_Default(f)
  /\ CallEnded => C4_Default(last)

C4_Witness ==
  /\ CallEnded
  /\ last.name = "get-crypto-price"
  /\ last.rawArgs = Obj([coin |-> Str("bitcoin")])
  /\ last.data = Obj([bitcoin |-> Obj([usd |-> Num(65000), eur |-> Num(60000),
                                       Usd |-> Num(1)]),
                      Bitcoin |-> Obj([Usd |-> Num(7), USD |-> Num(8), usd |-> Num(9)]),
                      BITCOIN |-> Obj([USD |-> Num(10), Usd |-> Num(11)])])
  /\ OneText(last.result, "BITCOIN = 65000 USD")

(***************************************************************************)
(* C5 as stated: when the body of a validated call holds a non-falsy value *)
(* at responseBody[coin][currency], the text is exactly the coin in upper  *)
(* case, " = ", the value, a space, the currency in upper case.            *)
(***************************************************************************)
C5_SuccessTextForEveryValue ==
  (CallEnded /\ PriceCall(last) /\ BodyRead(last)) =>
    LET coin == ReqCoin(last.rawArgs)
        currency == ReqCurrency(last.rawArgs) IN
    HoldsPrice(last.data, coin, currency) =>
      /\ ~last.result.threw
      /\ Len(last.result.content) = 1
      /\ StartsWith(last.result.content[1].text, InCapitals(coin) \o " = ")

(***************************************************************************)
(* C5, amended: when the value held there has a string form (a number, a   *)
(* string, a boolean, an object without a toString entry of its own, an    *)
(* array of such values, a built-in), the text is exactly the coin in      *)
(* upper case, " = ", the value, a space, the currency in upper case, and  *)
(* {bitcoin: {usd: 65000}} gives "BITCOIN = 65000 USD" for                 *)
(* {coin: "bitcoin"}; when the value is an object with a toString entry,   *)
(* or an array that holds one, the text is "Error: Cannot convert object   *)
(* to primitive value".                                                    *)
(***************************************************************************)
C5_SuccessText ==
  (CallEnded /\ PriceCall(last) /\ BodyRead(last)) =>
    LET coin == ReqCoin(last.rawArgs)
        currency == ReqCurrency(last.rawArgs)
        price == PriceAt(last.data, coin, currency).value IN
    /\ (HoldsPrice(last.data, coin, currency) /\ Printable(price)) =>
         OneText(last.result, InCapitals(coin) \o " = " \o Shown(price) \o " "
                                \o InCapitals(currency))
    /\ (HoldsPrice(last.data, coin, currency) /\ ~Printable(price)) =>
         OneText(last.result, "Error: Cannot convert object to primitive value")
    /\ (/\ last.rawArgs = Obj([coin |-> Str("bitcoin")])
        /\ last.data = Obj([bitcoin |-> Obj([usd |-> Num(65000)])])) =>
         OneText(last.result, "BITCOIN = 65000 USD")

C5_Witness ==
  /\ CallEnded
  /\ last.name = "get-crypto-price"
  /\ last.rawArgs = Obj([coin |-> Str("Bitcoin"), currency |-> Str("Usd")])
  /\ OneText(last.result, "BITCOIN = 7 USD")

(***************************************************************************)
(* C6: when the body of a validated call has no entry for the coin, or no  *)
(* entry for the currency under the coin, or a falsy value there, the text *)
(* is exactly "Could not find price for <coin> in <currency>." with both   *)
(* as supplied.                                                            *)
(***************************************************************************)
C6_NotFoundText ==
  (CallEnded /\ PriceCall(last) /\ BodyRead(last)) =>
    LET coin == ReqCoin(last.rawArgs)
        currency == ReqCurrency(last.rawArgs) IN
    ~Truthy(OwnEntry(last.data, coin, currency)) =>
      OneText(last.result,
              "Could not find price for " \o coin \o " in " \o currency \o ".")

(***************************************************************************)
(* C7: whatever was requested before, and whatever is still in flight, a   *)
(* list-tools request returns the same sequence of one descriptor, named   *)
(* "get-crypto-price", with the string properties coin (required) and      *)
(* currency (optional).                                                    *)
(***************************************************************************)
C7_ListToolsIsConstant ==
  last.pc = "listed" =>
    /\ ~last.result.threw
    /\ Len(last.result.tools) = 1
    /\ LET tool == last.result.tools[1] IN
       /\ tool.name = "get-crypto-price"
       /\ tool.description = "Fetch current price of a cryptocurrency from CoinGecko"
       /\ tool.inputSchema.type = "object"
       /\ DOMAIN tool.inputSchema.properties = {"coin", "currency"}
       /\ tool.inputSchema.properties["coin"].type = "string"
       /\ tool.inputSchema.properties["currency"].type = "string"
       /\ tool.inputSchema.required = <<"coin">>

C7_Witness ==
  /\ last.pc = "listed"
  /\ Len(last.result.tools) = 1
  /\ responded >= 2
  /\ InFlight # {}

(***************************************************************************)
(* C9: every request received has been answered once or is suspended; a    *)
(* call issues one GET when it names the tool and its arguments are valid, *)
(* none otherwise; a GET that fails is not repeated and the call ends with *)
(* one error text.                                                         *)
(***************************************************************************)
C9_OneGetOneResponse ==
  /\ responded + BagCardinality(suspended) = received
  /\ \A f \in InFlight : f.gets = 1
  /\ CallEnded =>
       /\ last.gets = IF PriceCall(last) THEN 1 ELSE 0
       /\ last.result.threw \/ Len(last.result.content) = 1
       /\ last.fetched = "rejected" =>
            /\ last.gets = 1
            /\ ~last.result.threw
            /\ StartsWith(last.result.content[1].text, "Error: ")

C9_Witness ==
  /\ CallEnded /\ PriceCall(last)
  /\ last.fetched = "rejected"
  /\ last.gets = 1
  /\ responded = 2
  /\ received = 3

(***************************************************************************)
(* C10: the URL of a validated call is the endpoint with coin and currency *)
(* embedded as validated, and the body is looked up under the same         *)
(* strings: the handler answers with a price exactly when the body holds a *)
(* non-falsy value under coin and currency in the letter case supplied.    *)
(***************************************************************************)
C10_Exact(e) ==
  PriceCall(e) =>
    LET coin == ReqCoin(e.rawArgs)
        currency == ReqCurrency(e.rawArgs)
        price == PriceAt(e.data, coin, currency).value IN
    /\ e.url = "https://api.coingecko.com/api/v3/simple/price?ids=" \o coin
                 \o "&vs_currencies=" \o currency
    /\ (BodyRead(e) /\ ~Nullish(e.data)) =>
         /\ StartsWith(e.result.content[1].text, InCapitals(coin) \o " = ")
              <=> (HoldsPrice(e.data, coin, currency) /\ Printable(price))
         /\ (HoldsPrice(e.data, coin, currency) /\ Printable(price)) =>
              StartsWith(e.result.content[1].text,
                         InCapitals(coin) \o " = " \o Shown(price) \o " ")

C10_UrlAndLookupKeepCase ==
  /\ \A f \in InFlight : C10_Exact(f)
  /\ CallEnded => C10_Exact(last)

C10_Witness ==
  /\ CallEnded
  /\ last.name = "get-crypto-price"
  /\ last.rawArgs = Obj([coin |-> Str("Bitcoin"), currency |-> Str("Usd")])
  /\ last.url = "https://api.coingecko.com/api/v3/simple/price?ids=Bitcoin&vs_currencies=Usd"
  /\ last.data = Obj([bitcoin |-> Obj([usd |-> Num(65000)])])
  /\ OneText(last.result, "Could not find price for Bitcoin in Usd.")
====
